---- MODULE Spec2Model ----
(***************************************************************************)
(* Persian Carpets API (src/main.py, src/schemas.py): the HTTP handlers,   *)
(* the pydantic schemas that guard them, and the document store they       *)
(* share.                                                                  *)
(*                                                                         *)
(* Representation.                                                         *)
(*  - Optional[T] is a sequence of length <= 1: None is <<>>, v is <<v>>.  *)
(*  - A request payload is a record holding only the keys the client sent; *)
(*    a key the client omitted is not in its DOMAIN.                       *)
(*  - price_usd is in whole dollars; rarity_score is in hundredths         *)
(*    (0.92 is 92), so its range [0,1] is 0..100.                          *)
(*  - An identifier string is a sequence of one-character strings; the     *)
(*    store's native ObjectId is the sequence of its nibbles (0..15).      *)
(*  - Handlers are sync functions that the server runs on a thread pool:   *)
(*    a handler with one store operation is one atomic step, and           *)
(*    seed_demo_data, which has four, is one step per store operation.     *)
(***************************************************************************)
EXTENDS Integers, Sequences, FiniteSets, TLC

VARIABLES
    poolSize,   \* threads the server runs handlers on (1: one request at a time)
    dbInit,     \* `db is not None`: the connection made at import time
    carpet,     \* db["carpet"], in insertion order
    order,      \* db["order"]
    review,     \* db["review"]
    nextOid,    \* the store's identifier generator
    pc,         \* per worker thread: "idle", or "seed_insert" inside seed_demo_data's loop
    idx,        \* per worker thread: index into samples of the next insert (0 when idle)
    ops,        \* per worker thread: store operations done by its request so far
    last,       \* the response a handler has just produced, until it is sent
    issued,     \* history: {id, payload} for every id create_carpet has returned
    seedCalls,  \* history: seed_demo_data requests completed
    seedFault   \* history: a seed_demo_data request ended in a store failure

vars == <<poolSize, dbInit, carpet, order, review, nextOid, pc, idx, ops, last, issued,
          seedCalls, seedFault>>

store == <<carpet, order, review>>

\* ------------------------------------------------------------------ bounds
Workers == {1, 2}    \* threads of the server's pool
MaxCreates == 2      \* documents inserted through the three create endpoints
MaxSeedCalls == 2    \* seed_demo_data requests started
FirstOid == 10       \* value of the first identifier the store hands out

\* ------------------------------------------------------- program constants
QueryLimit == 50     \* get_documents("carpet", filt, limit=50)
DiagCap == 10        \* collections[:10]
OidLen == 24         \* hex digits of an ObjectId string

None == <<>>
Some(v) == <<v>>

Min(a, b) == IF a < b THEN a ELSE b

Range(s) == {s[i] : i \in 1..Len(s)}

\* A record with one key set, and with one key removed.
With(p, f, v) == [g \in DOMAIN p \cup {f} |-> IF g = f THEN v ELSE p[g]]

Without(p, f) == [g \in DOMAIN p \ {f} |-> p[g]]

\* ------------------------------------------------------------- identifiers
HexDigits == <<"0","1","2","3","4","5","6","7","8","9","a","b","c","d","e","f">>
UpperHex == <<"A","B","C","D","E","F">>

IsHexChar(c) == c \in Range(HexDigits) \cup Range(UpperHex)

HexVal(c) ==
    IF c \in Range(UpperHex)
    THEN 9 + (CHOOSE i \in 1..6 : UpperHex[i] = c)
    ELSE (CHOOSE i \in 1..16 : HexDigits[i] = c) - 1

\* bson.ObjectId.is_valid on a str: 24 characters, all hexadecimal.
ObjectIdValid(s) == Len(s) = OidLen /\ \A i \in 1..Len(s) : IsHexChar(s[i])

\* ObjectId(s) for a valid s: the bytes the hex string denotes.
ObjectId(s) == [i \in 1..OidLen |-> HexVal(s[i])]

\* str(oid): lower-case hexadecimal.
OidStr(oid) == [i \in 1..OidLen |-> HexDigits[oid[i] + 1]]

RECURSIVE Nibbles(_, _)
Nibbles(n, w) == IF w = 0 THEN <<>> ELSE Append(Nibbles(n \div 16, w - 1), n % 16)

\* The identifier the store generates for its n-th insert.
NewOid(n) == Nibbles(n, OidLen)

\* ----------------------------------------------------------------- schemas
CarpetFields ==
    {"title", "description", "region", "style", "size_cm", "materials",
     "knot_density_kpsi", "age_years", "price_usd", "images", "colors",
     "rarity_score", "is_featured", "in_stock"}

CarpetRequired == {"title", "region", "style", "size_cm", "price_usd"}

\* Carpet defaults with in_stock defaulting to False.
CarpetDefaults_out_of_stock ==
    [description |-> None, materials |-> <<>>, knot_density_kpsi |-> None,
     age_years |-> None, images |-> <<>>, colors |-> <<>>, rarity_score |-> None,
     is_featured |-> FALSE, in_stock |-> FALSE]

CarpetDefaults ==
    [description |-> None, materials |-> <<>>, knot_density_kpsi |-> None,
     age_years |-> None, images |-> <<>>, colors |-> <<>>, rarity_score |-> None,
     is_featured |-> FALSE, in_stock |-> TRUE]

\* Field(..., ge=0) on price_usd, Field(None, ge=0, le=1) on rarity_score;
\* knot_density_kpsi and age_years carry no constraint.
CarpetValid(p) ==
    /\ CarpetRequired \subseteq DOMAIN p
    /\ p.price_usd >= 0
    /\ ("rarity_score" \in DOMAIN p /\ p.rarity_score # None) =>
           (p.rarity_score[1] >= 0 /\ p.rarity_score[1] <= 100)

\* The validated model: the payload with the defaults of the omitted fields.
Carpet(p) ==
    [f \in CarpetFields |-> IF f \in DOMAIN p THEN p[f] ELSE CarpetDefaults[f]]

ReviewRequired == {"carpet_id", "name", "rating"}

ReviewDefaults == [comment |-> None]

\* A Review schema whose rating has only its upper limit.
ReviewValid_no_lower(p) ==
    /\ ReviewRequired \subseteq DOMAIN p
    /\ p.rating <= 5

\* Field(..., ge=1, le=5) on rating.
ReviewValid(p) ==
    /\ ReviewRequired \subseteq DOMAIN p
    /\ p.rating >= 1
    /\ p.rating <= 5

Review(p) ==
    [f \in ReviewRequired \cup DOMAIN ReviewDefaults |->
        IF f \in DOMAIN p THEN p[f] ELSE ReviewDefaults[f]]

\* quantity: int = Field(1, ge=1)
OrderItemRequired == {"carpet_id", "price_usd"}

OrderItemDefaults == [quantity |-> 1]

OrderItemValid(it) ==
    /\ OrderItemRequired \subseteq DOMAIN it
    /\ "quantity" \in DOMAIN it => it.quantity >= 1

OrderItem(it) ==
    [f \in OrderItemRequired \cup DOMAIN OrderItemDefaults |->
        IF f \in DOMAIN it THEN it[f] ELSE OrderItemDefaults[f]]

OrderRequired ==
    {"customer_name", "customer_email", "shipping_address", "items", "subtotal_usd"}

OrderDefaults == [customer_phone |-> None, upsell_ids |-> <<>>, notes |-> None]

OrderValid(p) ==
    /\ OrderRequired \subseteq DOMAIN p
    /\ \A i \in 1..Len(p.items) : OrderItemValid(p.items[i])

Order(p) ==
    [f \in OrderRequired \cup DOMAIN OrderDefaults |->
        IF f = "items" THEN [i \in 1..Len(p.items) |-> OrderItem(p.items[i])]
        ELSE IF f \in DOMAIN p THEN p[f] ELSE OrderDefaults[f]]

\* ------------------------------------------------------------ seed samples
samples ==
    << Carpet([title |-> "Isfahan Silk Medallion",
               description |-> Some("Fine silk-on-silk with central medallion and arabesque borders."),
               region |-> "Isfahan", style |-> "medallion", size_cm |-> "200 x 300",
               materials |-> <<"silk">>, knot_density_kpsi |-> Some(650),
               age_years |-> Some(15), price_usd |-> 48000,
               images |-> <<"https://images.unsplash.com/photo-1545239351-1141bd82e8a6?q=80&w=1600&auto=format&fit=crop">>,
               colors |-> <<"crimson", "ivory", "navy">>, rarity_score |-> Some(92),
               is_featured |-> TRUE, in_stock |-> TRUE]),
       Carpet([title |-> "Tabriz Garden of Paradise",
               description |-> Some("Wool and silk blend with garden panels and cypress trees."),
               region |-> "Tabriz", style |-> "garden", size_cm |-> "240 x 340",
               materials |-> <<"wool", "silk">>, knot_density_kpsi |-> Some(400),
               age_years |-> Some(25), price_usd |-> 28000,
               images |-> <<"https://images.unsplash.com/photo-1618220179428-22790b461013?q=80&w=1600&auto=format&fit=crop">>,
               colors |-> <<"emerald", "gold", "brick">>, rarity_score |-> Some(80),
               is_featured |-> TRUE, in_stock |-> TRUE]),
       Carpet([title |-> "Kashan Royal Court",
               description |-> Some("Antique wool masterpiece with courtly motifs and deep palette."),
               region |-> "Kashan", style |-> "pictorial", size_cm |-> "180 x 270",
               materials |-> <<"wool">>, knot_density_kpsi |-> Some(300),
               age_years |-> Some(70), price_usd |-> 36000,
               images |-> <<"https://images.unsplash.com/photo-1545239350-48bf079fb38e?q=80&w=1600&auto=format&fit=crop">>,
               colors |-> <<"ruby", "indigo", "beige">>, rarity_score |-> Some(86),
               is_featured |-> FALSE, in_stock |-> TRUE]) >>

\* ------------------------------------------------------------------- store
\* The document a collection holds for a validated model: its fields and _id.
Doc(oid, m) == [f \in DOMAIN m \cup {"_id"} |-> IF f = "_id" THEN oid ELSE m[f]]

\* doc["_id"] = str(doc["_id"])
StrId(d) == [d EXCEPT !["_id"] = OidStr(d["_id"])]

\* A store call fails when the connection was never made, or when the store
\* raises on this call.
Failing(fault) == fault \/ ~dbInit

\* create_document(collection_name, model): the collection after the insert.
create_document(coll, m) == Append(coll, Doc(NewOid(nextOid), m))

\* get_documents(collection_name, filter, limit): up to `limit` documents that
\* carry every key of the filter with a matching value, in store order.
FilterMatches(d, filt) ==
    /\ "region" \in DOMAIN filt => d.region = filt.region
    /\ "style" \in DOMAIN filt => d.style = filt.style
    /\ "price_usd" \in DOMAIN filt => d.price_usd <= filt.price_usd
    /\ "is_featured" \in DOMAIN filt => d.is_featured = filt.is_featured

get_documents(coll, filt, limit) ==
    LET Hit(d) == FilterMatches(d, filt)
        hits == SelectSeq(coll, Hit)
    IN  SubSeq(hits, 1, Min(limit, Len(hits)))

\* db["carpet"].find_one({"_id": oid}): <<>> when absent, <<doc>> when found.
find_one(coll, oid) ==
    IF \E i \in 1..Len(coll) : coll[i]["_id"] = oid
    THEN << coll[CHOOSE i \in 1..Len(coll) : coll[i]["_id"] = oid] >>
    ELSE << >>

\* db.list_collection_names(): a collection exists once a document is in it.
list_collection_names ==
    SelectSeq(<<"carpet", "order", "review">>,
              LAMBDA n : CASE n = "carpet" -> carpet # <<>>
                           [] n = "order" -> order # <<>>
                           [] n = "review" -> review # <<>>)

\* ---------------------------------------------------------------- handlers
Resp(kind, req, status, body, entered, nops, fault) ==
    [kind |-> kind, req |-> req, status |-> status, body |-> body,
     entered |-> entered, ops |-> nops, fault |-> fault]

NoResp == Resp("none", <<>>, 0, <<>>, FALSE, 0, FALSE)

Idle(w) == pc[w] = "idle"

Quiet == \A w \in Workers : Idle(w)

\* The pool hands a request to its first free thread, once the response
\* before it is out.
Free(w) ==
    /\ last = NoResp
    /\ w <= poolSize
    /\ Idle(w)
    /\ \A v \in Workers : v < w => ~Idle(v)

Created == Cardinality(issued) + Len(order) + Len(review)

SeedsStarted == seedCalls + Cardinality({w \in Workers : ~Idle(w)})

\* @app.get("/")
read_root(w) ==
    /\ Free(w)
    /\ last' = Resp("read_root", <<>>, 200,
                    [message |-> "Persian Carpets Backend Running"], TRUE, 0, FALSE)
    /\ UNCHANGED <<poolSize, dbInit, carpet, order, review, nextOid, pc, idx, ops, issued,
                   seedCalls, seedFault>>

\* @app.get("/test")
test_database(w) ==
    /\ Free(w)
    /\ \E fault \in BOOLEAN, urlSet \in BOOLEAN :
        LET base == [backend |-> "Running", database |-> "Not Available",
                     database_url |-> None, connection_status |-> "Not Connected",
                     collections |-> <<>>]
            up == [base EXCEPT !.database = "Available",
                               !.database_url = Some(IF urlSet THEN "Set" ELSE "Not Set"),
                               !.connection_status = "Connected"]
            cols == list_collection_names
            body == IF ~dbInit
                    THEN [base EXCEPT !.database = "Available but not initialized"]
                    ELSE IF fault
                    THEN [up EXCEPT !.database = "Connected but Error"]
                    ELSE [up EXCEPT !.collections = SubSeq(cols, 1, Min(DiagCap, Len(cols))),
                                    !.database = "Connected & Working"]
        IN  /\ ~dbInit => (~fault /\ ~urlSet)
            /\ last' = Resp("test_database", <<>>, 200, body, TRUE,
                            IF dbInit THEN 1 ELSE 0, dbInit /\ fault)
    /\ UNCHANGED <<poolSize, dbInit, carpet, order, review, nextOid, pc, idx, ops, issued,
                   seedCalls, seedFault>>

\* @app.post("/api/carpets")
create_carpet(w, p) ==
    /\ Free(w)
    /\ Created < MaxCreates
    /\ IF ~CarpetValid(p)
       THEN /\ last' = Resp("create_carpet", p, 422, [detail |-> "validation error"],
                            FALSE, 0, FALSE)
            /\ UNCHANGED <<carpet, nextOid, issued>>
       ELSE \E fault \in BOOLEAN :
            IF Failing(fault)
            THEN /\ last' = Resp("create_carpet", p, 500, [detail |-> "store error"],
                                 TRUE, 1, TRUE)
                 /\ UNCHANGED <<carpet, nextOid, issued>>
            ELSE LET carpet_id == OidStr(NewOid(nextOid))
                 IN  /\ carpet' = create_document(carpet, Carpet(p))
                     /\ nextOid' = nextOid + 1
                     /\ issued' = issued \cup {[id |-> carpet_id, payload |-> p]}
                     /\ last' = Resp("create_carpet", p, 200, [id |-> carpet_id],
                                     TRUE, 1, FALSE)
    /\ UNCHANGED <<poolSize, dbInit, order, review, pc, idx, ops, seedCalls, seedFault>>

\* @app.post("/api/orders")
create_order(w, p) ==
    /\ Free(w)
    /\ Created < MaxCreates
    /\ IF ~OrderValid(p)
       THEN /\ last' = Resp("create_order", p, 422, [detail |-> "validation error"],
                            FALSE, 0, FALSE)
            /\ UNCHANGED <<order, nextOid>>
       ELSE \E fault \in BOOLEAN :
            IF Failing(fault)
            THEN /\ last' = Resp("create_order", p, 500, [detail |-> "store error"],
                                 TRUE, 1, TRUE)
                 /\ UNCHANGED <<order, nextOid>>
            ELSE /\ order' = create_document(order, Order(p))
                 /\ nextOid' = nextOid + 1
                 /\ last' = Resp("create_order", p, 200,
                                 [id |-> OidStr(NewOid(nextOid))], TRUE, 1, FALSE)
    /\ UNCHANGED <<poolSize, dbInit, carpet, review, pc, idx, ops, issued, seedCalls, seedFault>>

\* @app.post("/api/reviews")
create_review(w, p) ==
    /\ Free(w)
    /\ Created < MaxCreates
    /\ IF ~ReviewValid(p)
       THEN /\ last' = Resp("create_review", p, 422, [detail |-> "validation error"],
                            FALSE, 0, FALSE)
            /\ UNCHANGED <<review, nextOid>>
       ELSE \E fault \in BOOLEAN :
            IF Failing(fault)
            THEN /\ last' = Resp("create_review", p, 500, [detail |-> "store error"],
                                 TRUE, 1, TRUE)
                 /\ UNCHANGED <<review, nextOid>>
            ELSE /\ review' = create_document(review, Review(p))
                 /\ nextOid' = nextOid + 1
                 /\ last' = Resp("create_review", p, 200,
                                 [id |-> OidStr(NewOid(nextOid))], TRUE, 1, FALSE)
    /\ UNCHANGED <<poolSize, dbInit, carpet, order, pc, idx, ops, issued, seedCalls, seedFault>>

\* The filter query_carpets builds: `if q.region:` and `if q.style:` test the
\* string's truth value, `if q.max_price is not None:` tests presence.
Truthy(opt) == opt # None /\ opt[1] # ""

BuildFilter(q) ==
    LET keys == (IF Truthy(q.region) THEN {"region"} ELSE {})
                \cup (IF Truthy(q.style) THEN {"style"} ELSE {})
                \cup (IF q.max_price # None THEN {"price_usd"} ELSE {})
                \cup (IF q.featured_only THEN {"is_featured"} ELSE {})
    IN  [k \in keys |-> CASE k = "region" -> q.region[1]
                          [] k = "style" -> q.style[1]
                          [] k = "price_usd" -> q.max_price[1]
                          [] k = "is_featured" -> TRUE]

\* A query whose result shaping works on the stored documents themselves and
\* takes the native `_id` out of them.
query_carpets_writes_back(w, q) ==
    /\ Free(w)
    /\ \E fault \in BOOLEAN :
        IF Failing(fault)
        THEN /\ ~dbInit => ~fault
             /\ last' = Resp("query_carpets", q, 500, [detail |-> "store error"],
                             TRUE, 1, TRUE)
             /\ UNCHANGED carpet
        ELSE LET carpets == get_documents(carpet, BuildFilter(q), QueryLimit)
             IN  /\ last' = Resp("query_carpets", q, 200,
                                 [i \in 1..Len(carpets) |-> StrId(carpets[i])], TRUE, 1, FALSE)
                 /\ carpet' = [i \in 1..Len(carpet) |->
                                 IF FilterMatches(carpet[i], BuildFilter(q))
                                 THEN Without(carpet[i], "_id") ELSE carpet[i]]
    /\ UNCHANGED <<poolSize, dbInit, order, review, nextOid, pc, idx, ops, issued,
                   seedCalls, seedFault>>

\* @app.post("/api/carpets/query")
query_carpets(w, q) ==
    /\ Free(w)
    /\ \E fault \in BOOLEAN :
        IF Failing(fault)
        THEN /\ ~dbInit => ~fault
             /\ last' = Resp("query_carpets", q, 500, [detail |-> "store error"],
                             TRUE, 1, TRUE)
        ELSE LET carpets == get_documents(carpet, BuildFilter(q), QueryLimit)
             IN  last' = Resp("query_carpets", q, 200,
                              [i \in 1..Len(carpets) |-> StrId(carpets[i])], TRUE, 1, FALSE)
    /\ UNCHANGED <<poolSize, dbInit, carpet, order, review, nextOid, pc, idx, ops, issued,
                   seedCalls, seedFault>>

\* A try block that checks for the carpet with a count before it fetches it.
get_carpet_try_two_reads(carpet_id, fault) ==
    IF ~dbInit THEN [exc |-> "TypeError", ops |-> 0]
    ELSE IF ~ObjectIdValid(carpet_id) THEN [exc |-> "InvalidId", ops |-> 0]
    ELSE IF fault THEN [exc |-> "PyMongoError", ops |-> 1]
    ELSE LET doc == find_one(carpet, ObjectId(carpet_id))
         IN  IF doc = <<>>
             THEN [exc |-> "HTTPException", status |-> 404,
                   detail |-> "Carpet not found", ops |-> 1]
             ELSE [exc |-> "", doc |-> StrId(doc[1]), ops |-> 2]

\* What the try block of get_carpet ends with.
get_carpet_try(carpet_id, fault) ==
    IF ~dbInit THEN [exc |-> "TypeError", ops |-> 0]
    ELSE IF ~ObjectIdValid(carpet_id) THEN [exc |-> "InvalidId", ops |-> 0]
    ELSE IF fault THEN [exc |-> "PyMongoError", ops |-> 1]
    ELSE LET doc == find_one(carpet, ObjectId(carpet_id))
         IN  IF doc = <<>>
             THEN [exc |-> "HTTPException", status |-> 404,
                   detail |-> "Carpet not found", ops |-> 1]
             ELSE [exc |-> "", doc |-> StrId(doc[1]), ops |-> 1]

\* An except clause that lets an HTTPException through as it was raised.
get_carpet_except_reraise(r) ==
    IF r.exc = "" THEN [status |-> 200, body |-> r.doc]
    ELSE IF r.exc = "HTTPException"
         THEN [status |-> r.status, body |-> [detail |-> r.detail]]
         ELSE [status |-> 400, body |-> [detail |-> r.exc]]

\* `except Exception as e: raise HTTPException(status_code=400, detail=str(e))`;
\* HTTPException is an Exception, so the 404 raised in the try block lands here.
get_carpet_except(r) ==
    IF r.exc = "" THEN [status |-> 200, body |-> r.doc]
    ELSE IF r.exc = "HTTPException"
         THEN [status |-> 400, body |-> [detail |-> "404: Carpet not found"]]
         ELSE [status |-> 400, body |-> [detail |-> r.exc]]

\* @app.get("/api/carpets/{carpet_id}")
get_carpet(w, carpet_id) ==
    /\ Free(w)
    /\ \E fault \in BOOLEAN :
        LET r == get_carpet_try(carpet_id, fault)
            out == get_carpet_except(r)
        IN  /\ (~dbInit \/ ~ObjectIdValid(carpet_id)) => ~fault
            /\ last' = Resp("get_carpet", carpet_id, out.status, out.body, TRUE, r.ops,
                            r.exc \in {"TypeError", "PyMongoError"})
    /\ UNCHANGED <<poolSize, dbInit, carpet, order, review, nextOid, pc, idx, ops, issued,
                   seedCalls, seedFault>>

\* A seeding guard that reseeds until the collection outgrows the sample set.
AlreadySeeded_more_than_samples == Len(carpet) > Len(samples)

\* `if db["carpet"].count_documents({}) > 0:`
AlreadySeeded == Len(carpet) > 0

\* @app.post("/api/seed"), up to the emptiness check.
seed_demo_data(w) ==
    /\ Free(w)
    /\ SeedsStarted < MaxSeedCalls
    /\ \E fault \in BOOLEAN :
        IF Failing(fault)
        THEN /\ ~dbInit => ~fault
             /\ last' = Resp("seed_demo_data", <<>>, 500, [detail |-> "store error"],
                             TRUE, IF dbInit THEN 1 ELSE 0, TRUE)
             /\ seedCalls' = seedCalls + 1
             /\ seedFault' = TRUE
             /\ UNCHANGED <<pc, idx, ops>>
        ELSE IF AlreadySeeded
        THEN /\ last' = Resp("seed_demo_data", <<>>, 200,
                             [status |-> "ok", message |-> "Catalog already seeded"],
                             TRUE, 1, FALSE)
             /\ seedCalls' = seedCalls + 1
             /\ UNCHANGED <<pc, idx, ops, seedFault>>
        ELSE /\ pc' = [pc EXCEPT ![w] = "seed_insert"]
             /\ idx' = [idx EXCEPT ![w] = 1]
             /\ ops' = [ops EXCEPT ![w] = 1]
             /\ UNCHANGED <<last, seedCalls, seedFault>>
    /\ UNCHANGED <<poolSize, dbInit, carpet, order, review, nextOid, issued>>

\* `for s in samples: create_document("carpet", s)`, one iteration; the last
\* one returns the response.
seed_insert(w) ==
    /\ last = NoResp
    /\ pc[w] = "seed_insert"
    /\ \E fault \in BOOLEAN :
        IF Failing(fault)
        THEN /\ last' = Resp("seed_demo_data", <<>>, 500, [detail |-> "store error"],
                             TRUE, ops[w] + 1, TRUE)
             /\ seedCalls' = seedCalls + 1
             /\ seedFault' = TRUE
             /\ pc' = [pc EXCEPT ![w] = "idle"]
             /\ idx' = [idx EXCEPT ![w] = 0]
             /\ ops' = [ops EXCEPT ![w] = 0]
             /\ UNCHANGED <<carpet, nextOid>>
        ELSE /\ carpet' = create_document(carpet, samples[idx[w]])
             /\ nextOid' = nextOid + 1
             /\ IF idx[w] < Len(samples)
                THEN /\ idx' = [idx EXCEPT ![w] = idx[w] + 1]
                     /\ ops' = [ops EXCEPT ![w] = ops[w] + 1]
                     /\ UNCHANGED <<pc, last, seedCalls, seedFault>>
                ELSE /\ pc' = [pc EXCEPT ![w] = "idle"]
                     /\ idx' = [idx EXCEPT ![w] = 0]
                     /\ ops' = [ops EXCEPT ![w] = 0]
                     /\ last' = Resp("seed_demo_data", <<>>, 200,
                                     [status |-> "ok", message |-> "Seeded sample carpets"],
                                     TRUE, ops[w] + 1, FALSE)
                     /\ seedCalls' = seedCalls + 1
                     /\ UNCHANGED seedFault
    /\ UNCHANGED <<poolSize, dbInit, order, review, issued>>

\* The server writes the response out; the worker is free for the next request.
send_response ==
    /\ last # NoResp
    /\ last' = NoResp
    /\ UNCHANGED <<poolSize, dbInit, carpet, order, review, nextOid, pc, idx, ops, issued,
                   seedCalls, seedFault>>

\* ------------------------------------------------------- request payloads
BasicCarpet ==
    [title |-> "X", region |-> "Tabriz", style |-> "garden", size_cm |-> "100x100",
     price_usd |-> 100]

FullCarpet ==
    [title |-> "Y", description |-> Some("plain"), region |-> "", style |-> "",
     size_cm |-> "1x1", materials |-> <<"wool">>, knot_density_kpsi |-> Some(-1),
     age_years |-> Some(-1), price_usd |-> 0, images |-> <<"u">>, colors |-> <<"red">>,
     rarity_score |-> Some(100), is_featured |-> TRUE, in_stock |-> FALSE]

CarpetPayloads ==
    { BasicCarpet, FullCarpet,
      Without(BasicCarpet, "title"),
      With(BasicCarpet, "price_usd", -1),
      With(BasicCarpet, "rarity_score", Some(-1)),
      With(BasicCarpet, "rarity_score", Some(101)) }

BasicReview == [carpet_id |-> "c1", name |-> "Ana"]

ReviewPayloads ==
    { With(BasicReview, "rating", r) : r \in {0, 5, 6} } \cup { BasicReview }

BasicItem == [carpet_id |-> "c1", price_usd |-> 100]

BasicOrder ==
    [customer_name |-> "Ana", customer_email |-> "ana@example.org",
     shipping_address |-> "1 Main St", subtotal_usd |-> 100]

OrderPayloads ==
    { With(BasicOrder, "items", its) :
        its \in { << BasicItem, With(BasicItem, "quantity", 2) >>,
                  << With(BasicItem, "quantity", 0) >>,
                  << BasicItem, With(BasicItem, "quantity", -1) >> } }
        \cup { BasicOrder }

\* CatalogQuery: region, style, max_price default to None, featured_only to False.
CatalogQueries ==
    [region : {None, Some(""), Some("Tabriz")},
     style : {None, Some("garden")},
     max_price : {None, Some(30000)},
     featured_only : BOOLEAN]
    \cup [region : {None}, style : {None, Some("")}, max_price : {Some(0)},
          featured_only : BOOLEAN]

\* The requests the concurrent specification draws from: one accepted and one
\* rejected payload per create endpoint, two queries, the identifiers in use.
PoolCarpets == {BasicCarpet, With(BasicCarpet, "price_usd", -1)}

PoolOrders == {With(BasicOrder, "items", <<BasicItem>>), BasicOrder}

PoolReviews == {With(BasicReview, "rating", 5), With(BasicReview, "rating", 6)}

PoolQueries ==
    { [region |-> None, style |-> None, max_price |-> None, featured_only |-> FALSE],
      [region |-> None, style |-> None, max_price |-> Some(30000), featured_only |-> TRUE] }

Upper(s) ==
    [i \in 1..Len(s) |->
        IF \E k \in 1..6 : HexDigits[10 + k] = s[i]
        THEN UpperHex[(CHOOSE k \in 1..6 : HexDigits[10 + k] = s[i])]
        ELSE s[i]]

\* Identifier strings a client sends: every identifier handed out so far and
\* the next one (not in the store yet), the first one in upper case, and
\* strings that are no identifier.
KnownIds == {OidStr(NewOid(n)) : n \in FirstOid..nextOid}

IdStrings ==
    KnownIds \cup {Upper(OidStr(NewOid(FirstOid)))}
        \cup { <<"x", "y", "z">>, Tail(OidStr(NewOid(FirstOid))),
               [OidStr(NewOid(FirstOid)) EXCEPT ![1] = "g"] }

\* ------------------------------------------------------------ specification
InitStore ==
    /\ dbInit \in BOOLEAN
    /\ carpet = <<>>
    /\ order = <<>>
    /\ review = <<>>
    /\ nextOid = FirstOid
    /\ pc = [w \in Workers |-> "idle"]
    /\ idx = [w \in Workers |-> 0]
    /\ ops = [w \in Workers |-> 0]
    /\ last = NoResp
    /\ issued = {}
    /\ seedCalls = 0
    /\ seedFault = FALSE

\* One worker thread: requests are served one after the other.
Init == poolSize = 1 /\ InitStore

Next ==
    \/ \E w \in Workers : read_root(w)
    \/ \E w \in Workers : test_database(w)
    \/ \E w \in Workers, p \in CarpetPayloads : create_carpet(w, p)
    \/ \E w \in Workers, q \in CatalogQueries : query_carpets(w, q)
    \/ \E w \in Workers, s \in IdStrings : get_carpet(w, s)
    \/ \E w \in Workers, p \in OrderPayloads : create_order(w, p)
    \/ \E w \in Workers, p \in ReviewPayloads : create_review(w, p)
    \/ \E w \in Workers : seed_demo_data(w)
    \/ \E w \in Workers : seed_insert(w)
    \/ send_response

Spec == Init /\ [][Next]_vars

\* A pool of worker threads: a free thread takes a request while others are
\* inside seed_demo_data.
InitPool == poolSize = Cardinality(Workers) /\ InitStore

NextPool ==
    \/ \E w \in Workers : read_root(w)
    \/ \E w \in Workers : test_database(w)
    \/ \E w \in Workers, p \in PoolCarpets : create_carpet(w, p)
    \/ \E w \in Workers, q \in PoolQueries : query_carpets(w, q)
    \/ \E w \in Workers, s \in KnownIds : get_carpet(w, s)
    \/ \E w \in Workers, p \in PoolOrders : create_order(w, p)
    \/ \E w \in Workers, p \in PoolReviews : create_review(w, p)
    \/ \E w \in Workers : seed_demo_data(w)
    \/ \E w \in Workers : seed_insert(w)
    \/ send_response

SpecPool == InitPool /\ [][NextPool]_vars

\* ================================================================== claims
CreateKinds == {"create_carpet", "create_order", "create_review"}

ReadOnlyKinds == {"read_root", "test_database", "query_carpets", "get_carpet"}

IsPrefix(a, b) == Len(a) <= Len(b) /\ \A i \in 1..Len(a) : a[i] = b[i]

\* The Carpet fields of a stored or returned document.
Fields(d) == [f \in CarpetFields |-> d[f]]

OnlySamples(coll) ==
    /\ Len(coll) = Len(samples)
    /\ \A i \in 1..Len(samples) : Fields(coll[i]) = samples[i]

\* A carpet meets every predicate the query provides (a field that is not None;
\* featured_only when it is true).
MeetsProvided(c, q) ==
    /\ q.region # None => c.region = q.region[1]
    /\ q.style # None => c.style = q.style[1]
    /\ q.max_price # None => c.price_usd <= q.max_price[1]
    /\ q.featured_only => c.is_featured = TRUE

\* C1: every carpet query_carpets returns meets every provided predicate of
\* the query, and at most 50 carpets are returned.
C1_ResultsMeetProvidedPredicates ==
    (last.kind = "query_carpets" /\ last.status = 200) =>
        /\ Len(last.body) <= QueryLimit
        /\ \A i \in 1..Len(last.body) : MeetsProvided(last.body[i], last.req)

\* C2: with requests sent in sequence, no carpet created through the API and
\* no store failure in a seed request, the collection holds exactly the three
\* samples once any seed request has completed; the first seed request
\* answers "Seeded sample carpets" and every later one "Catalog already seeded".
C2_SeedingIdempotent ==
    (issued = {} /\ ~seedFault /\ seedCalls >= 1) =>
        /\ OnlySamples(carpet)
        /\ last.kind = "seed_demo_data" =>
              /\ last.status = 200
              /\ last.body.message = IF seedCalls = 1 THEN "Seeded sample carpets"
                                     ELSE "Catalog already seeded"

C2_Witness ==
    /\ issued = {} /\ ~seedFault /\ seedCalls = 2
    /\ last.kind = "seed_demo_data"
    /\ Len(carpet) = 3

\* The payload breaks one of the limits C3 names.
BreaksLimit(kind, p) ==
    CASE kind = "create_review" ->
            "rating" \in DOMAIN p /\ (p.rating < 1 \/ p.rating > 5)
      [] kind = "create_carpet" ->
            \/ "price_usd" \in DOMAIN p /\ p.price_usd < 0
            \/ /\ "rarity_score" \in DOMAIN p
               /\ p.rarity_score # None
               /\ (p.rarity_score[1] < 0 \/ p.rarity_score[1] > 100)
      [] kind = "create_order" ->
            /\ "items" \in DOMAIN p
            /\ \E i \in 1..Len(p.items) :
                  "quantity" \in DOMAIN p.items[i] /\ p.items[i].quantity < 1
      [] OTHER -> FALSE

C3_RejectedResponse ==
    (last.kind \in CreateKinds /\ BreaksLimit(last.kind, last.req)) =>
        /\ last.status = 422
        /\ ~last.entered
        /\ last.ops = 0
        /\ "id" \notin DOMAIN last.body

C3_RejectedStep ==
    (last'.kind \in CreateKinds /\ BreaksLimit(last'.kind, last'.req)) => store' = store

\* C3: a review with rating outside [1,5], a carpet with rarity_score outside
\* [0,1] or a negative price, or an order with an item of quantity < 1 is
\* answered by validation: the handler is not entered, no store call is made,
\* no id is returned, and the step leaves every collection as it was.
C3_InvalidRejectedBeforeStore == []C3_RejectedResponse /\ [][C3_RejectedStep]_vars

C3_Witness ==
    /\ last.kind = "create_order"
    /\ BreaksLimit(last.kind, last.req)
    /\ last.status = 422
    /\ Len(carpet) > 0

\* The identifier string names a carpet of the collection.
NamesCarpet(s) ==
    ObjectIdValid(s) /\ \E i \in 1..Len(carpet) : carpet[i]["_id"] = ObjectId(s)

\* C4: get_carpet answers a malformed identifier, an absent carpet and a store
\* failure with 400 (never 404, never an unhandled error), and answers the
\* identifier of a stored carpet with that carpet, its _id as a string.
C4_GetCarpetStatus ==
    last.kind = "get_carpet" =>
        /\ last.status \in {200, 400}
        /\ (last.status = 200) <=> (NamesCarpet(last.req) /\ ~last.fault)
        /\ last.status = 200 =>
              \E i \in 1..Len(carpet) :
                  /\ Fields(last.body) = Fields(carpet[i])
                  /\ last.body["_id"] = OidStr(carpet[i]["_id"])
                  /\ ObjectIdValid(last.body["_id"])
                  /\ ObjectId(last.body["_id"]) = ObjectId(last.req)

C4_Witness ==
    /\ last.kind = "get_carpet"
    /\ ObjectIdValid(last.req)
    /\ ~NamesCarpet(last.req)
    /\ ~last.fault
    /\ dbInit
    /\ last.status = 400
    /\ Len(carpet) > 0

C5_Step ==
    /\ IsPrefix(carpet, carpet')
    /\ IsPrefix(order, order')
    /\ IsPrefix(review, review')
    /\ last'.kind \in ReadOnlyKinds => store' = store

\* C5: every step keeps each stored document, with its fields and identifier,
\* and only appends new ones; a step of read_root, test_database,
\* query_carpets or get_carpet leaves every collection unchanged.
C5_AppendOnly == [][C5_Step]_vars

C5_Witness ==
    /\ Len(carpet) > Len(samples)
    /\ Len(order) > 0
    /\ last.kind = "query_carpets"
    /\ last.status = 200
    /\ Len(last.body) > 0

\* What an omitted Carpet field reads as.
ExpectedCarpetDefault(f) ==
    CASE f \in {"description", "knot_density_kpsi", "age_years", "rarity_score"} -> None
      [] f \in {"materials", "images", "colors"} -> <<>>
      [] f = "is_featured" -> FALSE
      [] f = "in_stock" -> TRUE

\* C6: get_carpet with an id that create_carpet returned succeeds unless the
\* store fails on the lookup, and the document it returns has, for every
\* Carpet field, the value of the payload, or the default when the payload
\* omitted the field.
C6_CreateThenGet ==
    last.kind = "get_carpet" =>
        \A r \in issued :
            r.id = last.req =>
                \/ last.fault /\ last.status = 400
                \/ /\ last.status = 200
                   /\ \A f \in CarpetFields :
                         last.body[f] = IF f \in DOMAIN r.payload THEN r.payload[f]
                                        ELSE ExpectedCarpetDefault(f)

C6_Witness ==
    /\ last.kind = "get_carpet"
    /\ last.status = 200
    /\ \E r \in issued : r.id = last.req /\ r.payload = BasicCarpet
    /\ Len(carpet) > Len(samples)
    /\ Cardinality(issued) = 1

\* C7: no stored carpet has a negative knot_density_kpsi or age_years.
C7_NoNegativeKnotOrAge ==
    \A i \in 1..Len(carpet) :
        /\ carpet[i].knot_density_kpsi # None => carpet[i].knot_density_kpsi[1] >= 0
        /\ carpet[i].age_years # None => carpet[i].age_years[1] >= 0

\* C8 as claimed: no request, seed_demo_data included, does more than one
\* store operation.
C8_OneStoreOpPerRequest ==
    /\ last.ops <= 1
    /\ \A w \in Workers : ops[w] <= 1

\* C8: every handler but seed_demo_data does at most one store operation per
\* request; seed_demo_data does at most four (the count and one insert per
\* sample), and exactly four when it answers "Seeded sample carpets".
C8_OneStoreOpExceptSeed ==
    /\ last.kind # "seed_demo_data" => last.ops <= 1
    /\ last.ops <= 1 + Len(samples)
    /\ \A w \in Workers : ops[w] <= Len(samples)
    /\ (last.kind = "seed_demo_data" /\ last.status = 200) =>
          last.ops = IF last.body.message = "Seeded sample carpets"
                     THEN 1 + Len(samples) ELSE 1

C8_Witness ==
    /\ last.kind = "seed_demo_data"
    /\ last.status = 200
    /\ last.ops = 4

\* The carpets of the collection that meet every provided predicate.
Matching(q) == {i \in 1..Len(carpet) : MeetsProvided(carpet[i], q)}

\* C9: query_carpets returns min(50, m) carpets, m the number of carpets that
\* meet every provided predicate (a provided empty region or style included),
\* and {max_price: 30000, featured_only: true} against the three samples
\* returns exactly "Tabriz Garden of Paradise".
C9_ReturnsEveryMatch ==
    (last.kind = "query_carpets" /\ last.status = 200) =>
        /\ Len(last.body) = Min(QueryLimit, Cardinality(Matching(last.req)))
        /\ ( /\ OnlySamples(carpet)
             /\ last.req = [region |-> None, style |-> None,
                            max_price |-> Some(30000), featured_only |-> TRUE] ) =>
               /\ Len(last.body) = 1
               /\ last.body[1].title = "Tabriz Garden of Paradise"

\* C10: with no carpet created through the API, whenever no seed request is
\* in progress the collection is empty or holds exactly the three samples.
C10_SeedGuardHolds ==
    (issued = {} /\ Quiet) => (carpet = <<>> \/ OnlySamples(carpet))

\* The same with store failures set aside: the race of two seed requests alone.
C10_SeedGuardHoldsWithoutFailure ==
    (issued = {} /\ Quiet /\ ~seedFault) => (carpet = <<>> \/ OnlySamples(carpet))

====
